---- MODULE Spec2Model ----
(***************************************************************************)
(* Model of the geocode facade (src/geocode.go): the cache-then-provider   *)
(* lookups, the cache read/write helpers, the construction with the        *)
(* initial download, and Clear with its save-then-upload.                  *)
(*                                                                         *)
(* Strings are sequences of one-character strings.  Times are hours.       *)
(* Coordinates are integers in units of 1e-7 degree.                       *)
(* The expiring store (github.com/comfforts/cache), the geocoding provider *)
(* and the object storage are collaborators outside this repository.       *)
(***************************************************************************)
EXTENDS Integers, Sequences, FiniteSets, TLC

VARIABLES cfg, svc, now, ticks, ops, store, dirty, localFile, remote, last,
          peer

vars == <<cfg, svc, now, ticks, ops, store, dirty, localFile, remote, last,
          peer>>

(***************************************************************************)
(* Bounds of the model.                                                    *)
(***************************************************************************)
MaxTicks == 1
MaxOps == 2
\* The longest raw key the key builder is applied to on its own.
MaxLen == 3

(***************************************************************************)
(* Program constants.                                                      *)
(***************************************************************************)
\* constants.go: OneYear = 365 * 24 * 30 * time.Hour, here in hours.
OneYear == 365 * 24 * 30

ErrNilContext == "context is nil"
ErrGeoCodePostalCode == "error geocoding postal code"
ErrGeoCodeAddress == "error geocoding address"
ErrGeoCodeNoResults == "no results found"
ErrInvalidGeoLatLng == "invalid geo lat/lng"
ErrInvalidGeoUnit == "invalid geo distance unit"
ERROR_MISSING_REQUIRED == "required value missing"
ERROR_NO_FILE == "file doesn't exist"
ERROR_CREATING_FILE == "creating file"
NoError == "nil"

(***************************************************************************)
(* Strings.                                                                *)
(***************************************************************************)
UpperChars ==
    <<"A", "B", "C", "D", "E", "F", "G", "H", "I", "J", "K", "L", "M",
      "N", "O", "P", "Q", "R", "S", "T", "U", "V", "W", "X", "Y", "Z">>
LowerChars ==
    <<"a", "b", "c", "d", "e", "f", "g", "h", "i", "j", "k", "l", "m",
      "n", "o", "p", "q", "r", "s", "t", "u", "v", "w", "x", "y", "z">>
DigitChars == <<"0", "1", "2", "3", "4", "5", "6", "7", "8", "9">>

Range(s) == {s[i] : i \in DOMAIN s}

\* strings.ToLower on one character.
ToLowerChar(c) ==
    IF \E i \in DOMAIN UpperChars : UpperChars[i] = c
    THEN LowerChars[CHOOSE i \in DOMAIN UpperChars : UpperChars[i] = c]
    ELSE c

\* url.QueryEscape on one character: letters, digits and - _ . ~ are kept,
\* a space becomes +, every other byte becomes %XX.
EscapeChar(c) ==
    IF c \in Range(UpperChars) \cup Range(LowerChars) \cup Range(DigitChars)
             \cup {"-", "_", ".", "~"}
    THEN <<c>>
    ELSE CASE c = " " -> <<"+">>
           [] c = "%" -> <<"%", "2", "5">>
           [] c = "+" -> <<"%", "2", "B">>
           [] c = "," -> <<"%", "2", "C">>
           [] c = "#" -> <<"%", "2", "3">>
           [] c = "/" -> <<"%", "2", "F">>
           [] c = "\t" -> <<"%", "0", "9">>

RECURSIVE RemoveSpaces(_)
RemoveSpaces(s) ==
    IF s = <<>> THEN <<>>
    ELSE IF Head(s) = " " THEN RemoveSpaces(Tail(s))
    ELSE <<Head(s)>> \o RemoveSpaces(Tail(s))

ToLower(s) == [i \in DOMAIN s |-> ToLowerChar(s[i])]

RECURSIVE QueryEscape(_)
QueryEscape(s) ==
    IF s = <<>> THEN <<>>
    ELSE EscapeChar(Head(s)) \o QueryEscape(Tail(s))

\* buildKey without strings.ToLower.
buildKeyCased(key) == QueryEscape(RemoveSpaces(key))

\* geoCodeService.buildKey
buildKey(key) == QueryEscape(ToLower(RemoveSpaces(key)))

RECURSIVE ReplaceChar(_, _, _)
\* strings.ReplaceAll(s, old, new) for a one-character old.
ReplaceChar(s, old, new) ==
    IF s = <<>> THEN <<>>
    ELSE (IF Head(s) = old THEN new ELSE <<Head(s)>>)
         \o ReplaceChar(Tail(s), old, new)

RECURSIVE Digits(_)
\* The decimal digits of a natural number, most significant first.
Digits(n) ==
    IF n < 10 THEN <<DigitChars[n + 1]>>
    ELSE Digits(n \div 10) \o <<DigitChars[(n % 10) + 1]>>

RECURSIVE PadLeft(_, _)
PadLeft(s, w) == IF Len(s) >= w THEN s ELSE PadLeft(<<"0">> \o s, w)

\* fmt.Sprintf("%.6f", x) for x given in units of 1e-7: the sign, then the
\* magnitude rounded to 6 decimals (ties to even), "-" kept for a negative
\* value that rounds to zero.
FormatF6(x) ==
    LET m == IF x < 0 THEN 0 - x ELSE x
        q == m \div 10
        r == m % 10
        rounded == IF r > 5 \/ (r = 5 /\ q % 2 = 1) THEN q + 1 ELSE q
    IN  (IF x < 0 THEN <<"-">> ELSE <<>>)
        \o Digits(rounded \div 1000000) \o <<".">>
        \o PadLeft(Digits(rounded % 1000000), 6)

\* buildLatLngKey with the fixed key kept for the pair (0, 0) only.
buildLatLngKeyBothZero(lat, lng) ==
    IF lat = 0 /\ lng = 0
    THEN <<"l", "a", "t", "0", "l", "n", "g", "0">>
    ELSE LET key == <<"l", "a", "t">> \o FormatF6(lat)
                    \o <<"l", "n", "g">> \o FormatF6(lng)
         IN  ReplaceChar(ReplaceChar(key, ".", <<"d", "o", "t">>),
                         "-", <<"m", "i", "n">>)

\* geoCodeService.buildLatLngKey
buildLatLngKey(lat, lng) ==
    IF lat = 0 \/ lng = 0
    THEN <<"l", "a", "t", "0", "l", "n", "g", "0">>
    ELSE LET key == <<"l", "a", "t">> \o FormatF6(lat)
                    \o <<"l", "n", "g">> \o FormatF6(lng)
         IN  ReplaceChar(ReplaceChar(key, ".", <<"d", "o", "t">>),
                         "-", <<"m", "i", "n">>)

\* addressString as a plain join of the five fields: an empty field still gets
\* its separator.
addressStringAllFields(a) ==
    a.Street \o <<" ">> \o a.City \o <<" ">> \o a.State \o <<" ">>
       \o a.PostalCode \o <<" ">> \o a.Country

\* AddressQuery.addressString
addressString(a) ==
    LET s1 == IF a.Street # <<>> THEN a.Street ELSE <<>>
        s2 == IF a.City # <<>>
              THEN (IF s1 = <<>> THEN a.City ELSE s1 \o <<" ">> \o a.City)
              ELSE s1
        s3 == IF a.State # <<>>
              THEN (IF s2 = <<>> THEN a.State ELSE s2 \o <<" ">> \o a.State)
              ELSE s2
        s4 == IF a.PostalCode # <<>>
              THEN (IF s3 = <<>> THEN a.PostalCode
                    ELSE s3 \o <<" ">> \o a.PostalCode)
              ELSE s3
        s5 == IF a.Country # <<>>
              THEN (IF s4 = <<>> THEN a.Country
                    ELSE s4 \o <<" ">> \o a.Country)
              ELSE s4
    IN  s5

(***************************************************************************)
(* Values.                                                                 *)
(***************************************************************************)
\* models.go: type Point.
Point(lat, lng, addr) ==
    [Latitude |-> lat, Longitude |-> lng, FormattedAddress |-> addr]

\* What the provider returns for one interpretation of the query
\* (r.Geometry.Location.Lat, r.Geometry.Location.Lng, r.FormattedAddress).
R1 == [Lat |-> 336600004, Lng |-> -1178300000, FormattedAddress |-> <<"x", "i">>]
R2 == [Lat |-> 222839394, Lng |-> 1141581879, FormattedAddress |-> <<"I", "x">>]
Results == {R1, R2}

\* The outcomes of one provider geocoding call: the call fails, or it
\* returns no result, one result, or two results in either order.
Responses ==
    {[err |-> FALSE, results |-> rs] :
        rs \in {<<>>, <<R1>>, <<R2>>, <<R1, R2>>, <<R2, R1>>}}
ProviderOutcomes == {[err |-> TRUE, results |-> <<>>]} \cup Responses

\* pt := &Point{Latitude: r.Geometry.Location.Lat, ...}
PointOf(r) == Point(r.Lat, r.Lng, r.FormattedAddress)

\* The two dynamic types a stored value can have.
PtrPoint(pt) == [kind |-> "*Point", pt |-> pt]
ValPoint(pt) == [kind |-> "Point", pt |-> pt]

EmptyMap == [k \in {} |-> 0]

Put(m, k, v) == [x \in DOMAIN m \cup {k} |-> IF x = k THEN v ELSE m[x]]

(***************************************************************************)
(* The expiring cache store (the collaborator behind cache.CacheService):  *)
(* a map key -> (value, absolute expiry) with a dirty flag, saved to one   *)
(* JSON file.                                                              *)
(***************************************************************************)
\* Get(key) -> (value, expiresAt, error)
CacheGet(st, t, key) ==
    IF key \notin DOMAIN st
    THEN [val |-> <<>>, exp |-> 0, err |-> "NotFound"]
    ELSE IF st[key].exp < t
    THEN [val |-> <<>>, exp |-> st[key].exp, err |-> "Expired"]
    ELSE [val |-> <<st[key].val>>, exp |-> st[key].exp, err |-> NoError]

\* Set(key, value, ttl): the value is kept as given, expiry = now + ttl, the
\* store becomes dirty.
CacheSet(st, d, t, key, value, ttl, ok) ==
    IF ok
    THEN [store |-> Put(st, key, [val |-> value, exp |-> t + ttl]),
          dirty |-> TRUE, err |-> NoError]
    ELSE [store |-> st, dirty |-> d, err |-> "error setting cache"]

\* json.Marshal of a Point or of a *Point: the same JSON object.
MarshalJSON(val) ==
    [latitude |-> val.pt.Latitude, longitude |-> val.pt.Longitude,
     formatted_address |-> val.pt.FormattedAddress]

\* unmarshalLPoint losing the formatted address, as it would with a JSON tag
\* that does not match.
unmarshalLPointNoAddress(obj) ==
    ValPoint(Point(obj.latitude, obj.longitude, <<>>))

\* var unmarshalLPoint: the decoded JSON object becomes a Point value.
unmarshalLPoint(obj) ==
    ValPoint(Point(obj.latitude, obj.longitude, obj.formatted_address))

\* The JSON document SaveFile writes: the whole entry mapping.
FileData(st) ==
    [k \in DOMAIN st |-> [obj |-> MarshalJSON(st[k].val), exp |-> st[k].exp]]

NoFile == [exists |-> FALSE, ok |-> FALSE, data |-> EmptyMap]
\* A file created and never filled, or filled in part: no JSON document.
BrokenFile == [exists |-> TRUE, ok |-> FALSE, data |-> EmptyMap]
FileOf(data) == [exists |-> TRUE, ok |-> TRUE, data |-> data]

\* NewCacheService(path, logger, unmarshalLPoint): the store starts with the
\* entries of the file when the file holds a JSON document, empty otherwise.
NewCacheService(file) ==
    IF file.exists /\ file.ok
    THEN [k \in DOMAIN file.data |->
            [val |-> unmarshalLPoint(file.data[k].obj), exp |-> file.data[k].exp]]
    ELSE EmptyMap

(***************************************************************************)
(* The facade's cache helpers.                                             *)
(***************************************************************************)
\* getFromCache with the expiry test "exp < now" in place of "exp <= now": an
\* entry whose expiry is the present instant would still be served.
getFromCacheLate(key) ==
    LET k == buildKey(key)
        g == CacheGet(store, now, k)
    IN  IF g.err # NoError
        THEN [pt |-> <<>>, exp |-> g.exp, err |-> g.err]
        ELSE IF g.exp < now
        THEN [pt |-> <<>>, exp |-> g.exp, err |-> "Expired"]
        ELSE IF g.val[1].kind # "Point"
        THEN [pt |-> <<>>, exp |-> g.exp, err |-> "NotAPoint"]
        ELSE [pt |-> <<g.val[1].pt>>, exp |-> g.exp, err |-> NoError]

\* geoCodeService.getFromCache, on store st at time t.
getFromCacheIn(st, t, key) ==
    LET k == buildKey(key)
        g == CacheGet(st, t, k)
    IN  IF g.err # NoError
        THEN [pt |-> <<>>, exp |-> g.exp, err |-> g.err]
        ELSE IF g.exp <= t
        THEN [pt |-> <<>>, exp |-> g.exp, err |-> "Expired"]
        ELSE IF g.val[1].kind # "Point"
        THEN [pt |-> <<>>, exp |-> g.exp, err |-> "NotAPoint"]
        ELSE [pt |-> <<g.val[1].pt>>, exp |-> g.exp, err |-> NoError]

\* geoCodeService.getFromCache on the facade's store, now.
getFromCache(key) == getFromCacheIn(store, now, key)

\* setInCache without the default: the ttl is handed on as given.
setInCacheNoDefault(key, point, cacheFor, ok) ==
    CacheSet(store, dirty, now, buildKey(key), PtrPoint(point), cacheFor, ok)

\* geoCodeService.setInCache: point is the *Point the caller built.
setInCache(key, point, cacheFor, ok) ==
    LET ttl == IF cacheFor = 0 THEN OneYear ELSE cacheFor
        k == buildKey(key)
    IN  CacheSet(store, dirty, now, k, PtrPoint(point), ttl, ok)

(***************************************************************************)
(* The record of the last call: its inputs, what it did and what it        *)
(* returned.  ctx is FALSE for a nil context.  key is the key handed to    *)
(* getFromCache and setInCache, lookup the outcome of the cache read,      *)
(* calls the number of provider calls, resp the collaborators' answers,    *)
(* steps the file and storage calls in order.  err is the returned error,  *)
(* cacheErr the cache-side error that was only logged.  ret is the         *)
(* returned pointer (<<>> for nil, <<p>> for a point) or the returned list.*)
(***************************************************************************)
Blank ==
    [op |-> "none", ctx |-> TRUE, in |-> <<>>, key |-> <<>>, lookup |-> "none",
     calls |-> 0, callCtx |-> "none", req |-> <<>>, resp |-> <<>>,
     err |-> NoError, ret |-> <<>>, cacheErr |-> NoError, steps |-> <<>>,
     at |-> 0]

(***************************************************************************)
(* The inputs the model draws from.                                        *)
(***************************************************************************)
PostalCodes == {<<"9", " ", "2">>}
CountryCodes == {<<>>, <<"U", "S">>}
Address(street, city, state, postal, country) ==
    [Street |-> street, City |-> city, State |-> state,
     PostalCode |-> postal, Country |-> country]
AddressQueries ==
    {Address(<<>>, <<>>, <<>>, <<"9", "2">>, <<>>),
     Address(<<"9">>, <<>>, <<>>, <<"2">>, <<"u", "s", "a">>)}
LatLngs == {<<0, 1141581879>>, <<336600004, 0>>}
Hints == {<<>>, <<"I">>}
DefaultCountry == <<"U", "S", "A">>

(***************************************************************************)
(* Geocode, GeocodeAddress and GeocodeLatLong share one body: the nil      *)
(* context check, the cache lookup under key when caching is on, the       *)
(* provider call, the point built from the first result, the cache write.  *)
(* The result is the call's record and the store after it.                 *)
(***************************************************************************)
\* The last result in place of resp[0].
pickLast(results, hint) == results[Len(results)]

\* r := resp[0]
pickResult(results, hint) == results[1]

\* The shared body with a cache lookup error returned to the caller instead of
\* being logged.
geocodeWithFatalMiss(op, ctx, in, key, req, provErr, hint, out, setOk) ==
    LET call == [Blank EXCEPT !.op = op, !.ctx = ctx, !.in = in, !.at = now]
        c == getFromCache(key)
        looked == IF cfg.Cached
                  THEN [call EXCEPT !.key = key,
                                    !.lookup = IF c.err = NoError THEN "hit"
                                               ELSE c.err]
                  ELSE call
        asked == [looked EXCEPT !.calls = 1, !.callCtx = "caller",
                                !.req = req, !.resp = <<out>>]
        pt == PointOf(pickResult(out.results, hint))
        w == setInCache(key, pt, 0, setOk)
        same == [store |-> store, dirty |-> dirty]
    IN  IF ~ctx
        THEN [last |-> [call EXCEPT !.err = ErrNilContext]] @@ same
        ELSE IF cfg.Cached /\ c.err = NoError
        THEN [last |-> [looked EXCEPT !.ret = c.pt]] @@ same
        ELSE IF cfg.Cached
        THEN [last |-> [looked EXCEPT !.err = c.err]] @@ same
        ELSE IF out.err
        THEN [last |-> [asked EXCEPT !.err = provErr]] @@ same
        ELSE IF Len(out.results) < 1
        THEN [last |-> [asked EXCEPT !.err = ErrGeoCodeNoResults]] @@ same
        ELSE [last |-> [asked EXCEPT !.ret = <<pt>>]] @@ same

\* The shared body with the cache write made whether or not caching is on.
geocodeWithUnguardedWrite(op, ctx, in, key, req, provErr, hint, out, setOk) ==
    LET call == [Blank EXCEPT !.op = op, !.ctx = ctx, !.in = in, !.at = now]
        c == getFromCache(key)
        looked == IF cfg.Cached
                  THEN [call EXCEPT !.key = key,
                                    !.lookup = IF c.err = NoError THEN "hit"
                                               ELSE c.err]
                  ELSE call
        asked == [looked EXCEPT !.calls = 1, !.callCtx = "caller",
                                !.req = req, !.resp = <<out>>]
        pt == PointOf(pickResult(out.results, hint))
        w == setInCache(key, pt, 0, setOk)
        same == [store |-> store, dirty |-> dirty]
    IN  IF ~ctx
        THEN [last |-> [call EXCEPT !.err = ErrNilContext]] @@ same
        ELSE IF cfg.Cached /\ c.err = NoError
        THEN [last |-> [looked EXCEPT !.ret = c.pt]] @@ same
        ELSE IF out.err
        THEN [last |-> [asked EXCEPT !.err = provErr]] @@ same
        ELSE IF Len(out.results) < 1
        THEN [last |-> [asked EXCEPT !.err = ErrGeoCodeNoResults]] @@ same
        ELSE [last |-> [asked EXCEPT !.ret = <<pt>>, !.cacheErr = w.err],
              store |-> w.store, dirty |-> w.dirty]

\* The shared body with a sliding TTL: a hit writes the entry back, which
\* renews its expiry.
geocodeWithSlidingTTL(op, ctx, in, key, req, provErr, hint, out, setOk) ==
    LET call == [Blank EXCEPT !.op = op, !.ctx = ctx, !.in = in, !.at = now]
        c == getFromCache(key)
        looked == IF cfg.Cached
                  THEN [call EXCEPT !.key = key,
                                    !.lookup = IF c.err = NoError THEN "hit"
                                               ELSE c.err]
                  ELSE call
        asked == [looked EXCEPT !.calls = 1, !.callCtx = "caller",
                                !.req = req, !.resp = <<out>>]
        pt == PointOf(pickResult(out.results, hint))
        w == setInCache(key, pt, 0, setOk)
        again == setInCache(key, c.pt[1], 0, TRUE)
        same == [store |-> store, dirty |-> dirty]
    IN  IF ~ctx
        THEN [last |-> [call EXCEPT !.err = ErrNilContext]] @@ same
        ELSE IF cfg.Cached /\ c.err = NoError
        THEN [last |-> [looked EXCEPT !.ret = c.pt],
              store |-> again.store, dirty |-> again.dirty]
        ELSE IF out.err
        THEN [last |-> [asked EXCEPT !.err = provErr]] @@ same
        ELSE IF Len(out.results) < 1
        THEN [last |-> [asked EXCEPT !.err = ErrGeoCodeNoResults]] @@ same
        ELSE IF cfg.Cached
        THEN [last |-> [asked EXCEPT !.ret = <<pt>>, !.cacheErr = w.err],
              store |-> w.store, dirty |-> w.dirty]
        ELSE [last |-> [asked EXCEPT !.ret = <<pt>>]] @@ same

\* The shared body with a failed cache write returned to the caller.
geocodeWithFatalWrite(op, ctx, in, key, req, provErr, hint, out, setOk) ==
    LET call == [Blank EXCEPT !.op = op, !.ctx = ctx, !.in = in, !.at = now]
        c == getFromCache(key)
        looked == IF cfg.Cached
                  THEN [call EXCEPT !.key = key,
                                    !.lookup = IF c.err = NoError THEN "hit"
                                               ELSE c.err]
                  ELSE call
        asked == [looked EXCEPT !.calls = 1, !.callCtx = "caller",
                                !.req = req, !.resp = <<out>>]
        pt == PointOf(pickResult(out.results, hint))
        w == setInCache(key, pt, 0, setOk)
        same == [store |-> store, dirty |-> dirty]
    IN  IF ~ctx
        THEN [last |-> [call EXCEPT !.err = ErrNilContext]] @@ same
        ELSE IF cfg.Cached /\ c.err = NoError
        THEN [last |-> [looked EXCEPT !.ret = c.pt]] @@ same
        ELSE IF out.err
        THEN [last |-> [asked EXCEPT !.err = provErr]] @@ same
        ELSE IF Len(out.results) < 1
        THEN [last |-> [asked EXCEPT !.err = ErrGeoCodeNoResults]] @@ same
        ELSE IF cfg.Cached
        THEN [last |-> IF w.err = NoError THEN [asked EXCEPT !.ret = <<pt>>]
                       ELSE [asked EXCEPT !.err = w.err, !.cacheErr = w.err],
              store |-> w.store, dirty |-> w.dirty]
        ELSE [last |-> [asked EXCEPT !.ret = <<pt>>]] @@ same

\* The shared body with an empty answer of the provider cached as a zero
\* point.
geocodeWithEarlyWrite(op, ctx, in, key, req, provErr, hint, out, setOk) ==
    LET call == [Blank EXCEPT !.op = op, !.ctx = ctx, !.in = in, !.at = now]
        c == getFromCache(key)
        looked == IF cfg.Cached
                  THEN [call EXCEPT !.key = key,
                                    !.lookup = IF c.err = NoError THEN "hit"
                                               ELSE c.err]
                  ELSE call
        asked == [looked EXCEPT !.calls = 1, !.callCtx = "caller",
                                !.req = req, !.resp = <<out>>]
        pt == PointOf(pickResult(out.results, hint))
        w == setInCache(key, pt, 0, setOk)
        none == setInCache(key, Point(0, 0, <<>>), 0, TRUE)
        same == [store |-> store, dirty |-> dirty]
    IN  IF ~ctx
        THEN [last |-> [call EXCEPT !.err = ErrNilContext]] @@ same
        ELSE IF cfg.Cached /\ c.err = NoError
        THEN [last |-> [looked EXCEPT !.ret = c.pt]] @@ same
        ELSE IF out.err
        THEN [last |-> [asked EXCEPT !.err = provErr]] @@ same
        ELSE IF Len(out.results) < 1
        THEN [last |-> [asked EXCEPT !.err = ErrGeoCodeNoResults],
              store |-> none.store, dirty |-> none.dirty]
        ELSE IF cfg.Cached
        THEN [last |-> [asked EXCEPT !.ret = <<pt>>, !.cacheErr = w.err],
              store |-> w.store, dirty |-> w.dirty]
        ELSE [last |-> [asked EXCEPT !.ret = <<pt>>]] @@ same

geocodeWith(op, ctx, in, key, req, provErr, hint, out, setOk) ==
    LET call == [Blank EXCEPT !.op = op, !.ctx = ctx, !.in = in, !.at = now]
        c == getFromCache(key)
        looked == IF cfg.Cached
                  THEN [call EXCEPT !.key = key,
                                    !.lookup = IF c.err = NoError THEN "hit"
                                               ELSE c.err]
                  ELSE call
        asked == [looked EXCEPT !.calls = 1, !.callCtx = "caller",
                                !.req = req, !.resp = <<out>>]
        pt == PointOf(pickResult(out.results, hint))
        w == setInCache(key, pt, 0, setOk)
        same == [store |-> store, dirty |-> dirty]
    IN  IF ~ctx
        THEN [last |-> [call EXCEPT !.err = ErrNilContext]] @@ same
        ELSE IF cfg.Cached /\ c.err = NoError
        THEN [last |-> [looked EXCEPT !.ret = c.pt]] @@ same
        ELSE IF out.err
        THEN [last |-> [asked EXCEPT !.err = provErr]] @@ same
        ELSE IF Len(out.results) < 1
        THEN [last |-> [asked EXCEPT !.err = ErrGeoCodeNoResults]] @@ same
        ELSE IF cfg.Cached
        THEN [last |-> [asked EXCEPT !.ret = <<pt>>, !.cacheErr = w.err],
              store |-> w.store, dirty |-> w.dirty]
        ELSE [last |-> [asked EXCEPT !.ret = <<pt>>]] @@ same

\* The effect of a lookup with the store flushed to its file after a write.
ApplyAndSave(r) ==
    /\ last' = r.last
    /\ store' = r.store
    /\ dirty' = r.dirty
    /\ ops' = ops + 1
    /\ localFile' = IF r.store # store THEN FileOf(FileData(r.store))
                    ELSE localFile
    /\ UNCHANGED <<cfg, peer, svc, now, ticks, remote>>

Apply(r) ==
    /\ last' = r.last
    /\ store' = r.store
    /\ dirty' = r.dirty
    /\ ops' = ops + 1
    /\ UNCHANGED <<cfg, peer, svc, now, ticks, localFile, remote>>

\* Geocode with the country code made part of the cache key.
GeocodeCallCountryKey(ctx, postalCode, countryCode, out, setOk) ==
    LET cc == IF countryCode = <<>> THEN DefaultCountry ELSE countryCode
    IN  geocodeWith("Geocode", ctx, <<postalCode, countryCode>>,
                    postalCode \o <<" ">> \o cc, <<postalCode, cc>>,
                    ErrGeoCodePostalCode, <<>>, out, setOk)

\* geoCodeService.Geocode: the call's record and the store after it.
GeocodeCall(ctx, postalCode, countryCode, out, setOk) ==
    LET cc == IF countryCode = <<>> THEN DefaultCountry ELSE countryCode
    IN  geocodeWith("Geocode", ctx, <<postalCode, countryCode>>,
                    postalCode, <<postalCode, cc>>,
                    ErrGeoCodePostalCode, <<>>, out, setOk)

Geocode(ctx, postalCode, countryCode, out, setOk) ==
    /\ svc = "ready"
    /\ last = Blank
    /\ ops < MaxOps
    /\ Apply(GeocodeCall(ctx, postalCode, countryCode, out, setOk))

\* geoCodeService.GeocodeAddress
GeocodeAddressCall(ctx, addr, out, setOk) ==
    LET a == IF ctx /\ addr.Country = <<>>
             THEN [addr EXCEPT !.Country = DefaultCountry] ELSE addr
    IN  geocodeWith("GeocodeAddress", ctx, <<addr>>,
                    addressString(a), addressString(a),
                    ErrGeoCodeAddress, <<>>, out, setOk)

GeocodeAddress(ctx, addr, out, setOk) ==
    /\ svc = "ready"
    /\ last = Blank
    /\ ops < MaxOps
    /\ Apply(GeocodeAddressCall(ctx, addr, out, setOk))

\* geoCodeService.GeocodeLatLong
GeocodeLatLongCall(ctx, lat, long, hint, out, setOk) ==
    geocodeWith("GeocodeLatLong", ctx, <<lat, long, hint>>,
                buildLatLngKey(lat, long), <<lat, long>>,
                ErrGeoCodeAddress, hint, out, setOk)

GeocodeLatLong(ctx, lat, long, hint, out, setOk) ==
    /\ svc = "ready"
    /\ last = Blank
    /\ ops < MaxOps
    /\ Apply(GeocodeLatLongCall(ctx, lat, long, hint, out, setOk))

(***************************************************************************)
(* Distance and routes.                                                    *)
(***************************************************************************)
\* IsValid with "or" in place of "and": one non-zero coordinate would do.
IsValidAny(p) == p.Latitude # 0 \/ p.Longitude # 0

\* Point.IsValid
IsValid(p) == p.Latitude # 0 /\ p.Longitude # 0

Units == {"KM", "MILES", "METERS", "FEET"}
UnitArgs == Units \cup {"YARDS"}
\* A *Point argument: <<>> is nil.
PointArgs == {<<>>, <<Point(0, 1141581879, <<>>)>>, <<PointOf(R1)>>, <<PointOf(R2)>>}

\* geoCodeService.GetDistance.  The geodesic distance itself is the
\* library's (vincenty.Inverse); the model keeps it as the term
\* "distance from source to dest in unit u".
GetDistance(ctx, u, source, dest) ==
    /\ svc = "ready"
    /\ last = Blank
    /\ LET call == [Blank EXCEPT !.op = "GetDistance", !.ctx = ctx,
                                 !.in = <<u, source, dest>>, !.at = now]
       IN  last' =
             IF source = <<>> \/ dest = <<>>
             THEN [call EXCEPT !.err = ErrInvalidGeoLatLng]
             ELSE IF ~IsValid(source[1]) \/ ~IsValid(dest[1])
             THEN [call EXCEPT !.err = ErrInvalidGeoLatLng]
             ELSE IF u \in Units
             THEN [call EXCEPT !.ret = <<[unit |-> u, from |-> source[1],
                                          to |-> dest[1]]>>]
             ELSE [call EXCEPT !.err = ErrInvalidGeoUnit]
    /\ UNCHANGED <<cfg, peer, svc, now, ticks, ops, store, dirty, localFile, remote>>

\* fmt.Sprintf("%.6f %.6f", p.Latitude, p.Longitude)
LatLngString(p) == FormatF6(p.Latitude) \o <<" ">> \o FormatF6(p.Longitude)

Leg(start, end, duration, meters) ==
    [StartAddress |-> start, EndAddress |-> end, Duration |-> duration,
     Meters |-> meters]
RouteLeg(start, end, duration, distance) ==
    [Start |-> start, End |-> end, Duration |-> duration, Distance |-> distance]

\* The outcomes of one provider directions call: an error, or routes, each a
\* list of legs.
DirectionsOutcomes ==
    {[err |-> TRUE, routes |-> <<>>],
     [err |-> FALSE, routes |-> <<>>],
     [err |-> FALSE, routes |-> <<<<Leg(<<"a">>, <<"b">>, 60, 1000)>>>>],
     [err |-> FALSE,
      routes |-> <<<<Leg(<<"a">>, <<"c">>, 30, 400), Leg(<<"c">>, <<"b">>, 40, 700)>>,
                   <<Leg(<<"a">>, <<"b">>, 60, 1000)>>>>]}

RECURSIVE LegsOf(_)
\* for _, l := range rt.Legs { routeLegs = append(routeLegs, ...) }
LegsOf(legs) ==
    IF legs = <<>> THEN <<>>
    ELSE <<RouteLeg(Head(legs).StartAddress, Head(legs).EndAddress,
                    Head(legs).Duration, Head(legs).Meters)>>
         \o LegsOf(Tail(legs))

RECURSIVE RouteLegsOf(_)
\* for _, rt := range routes { ... }
RouteLegsOf(routes) ==
    IF routes = <<>> THEN <<>>
    ELSE LegsOf(Head(routes)) \o RouteLegsOf(Tail(routes))

\* geoCodeService.getRoute: the provider is called under
\* context.Background(), whatever ctx is.
getRoute(op, ctx, in, req, out) ==
    LET call == [Blank EXCEPT !.op = op, !.ctx = ctx, !.in = in, !.at = now,
                              !.calls = 1, !.callCtx = "background",
                              !.req = req, !.resp = <<out>>]
    IN  IF out.err
        THEN [call EXCEPT !.err = "provider error"]
        ELSE [call EXCEPT !.ret = RouteLegsOf(out.routes)]

\* geoCodeService.GetRouteForLatLong
GetRouteForLatLong(ctx, origin, destination, out) ==
    /\ svc = "ready"
    /\ last = Blank
    /\ last' = getRoute("GetRouteForLatLong", ctx, <<origin, destination>>,
                        [Origin |-> LatLngString(origin),
                         Destination |-> LatLngString(destination)], out)
    /\ UNCHANGED <<cfg, peer, svc, now, ticks, ops, store, dirty, localFile, remote>>

\* geoCodeService.GetRouteForAddress
GetRouteForAddress(ctx, origin, destination, out) ==
    /\ svc = "ready"
    /\ last = Blank
    /\ last' = getRoute("GetRouteForAddress", ctx, <<origin, destination>>,
                        [Origin |-> addressString(origin),
                         Destination |-> addressString(destination)], out)
    /\ UNCHANGED <<cfg, peer, svc, now, ticks, ops, store, dirty, localFile, remote>>

\* The outcomes of one provider distance-matrix call for a request: an
\* error, or one row per origin with one element per destination, the
\* addresses either as asked or all resolved to one place.
MatrixResponse(origins, destinations) ==
    [err |-> FALSE, OriginAddresses |-> origins,
     DestinationAddresses |-> destinations,
     Rows |-> [i \in DOMAIN origins |->
                 [j \in DOMAIN destinations |->
                    [Duration |-> 60 * i, Meters |-> 100 * j]]]]
MatrixOutcomes(req) ==
    {[err |-> TRUE, OriginAddresses |-> <<>>, DestinationAddresses |-> <<>>,
      Rows |-> <<>>],
     MatrixResponse(req.Origins, req.Destinations),
     MatrixResponse([i \in DOMAIN req.Origins |-> <<"x">>],
                    [j \in DOMAIN req.Destinations |-> <<"x">>])}

RECURSIVE RowLegsAll(_, _, _)
\* The inner loop without the test on the two addresses: a leg for every cell.
RowLegsAll(resp, i, j) ==
    IF j > Len(resp.Rows[i]) THEN <<>>
    ELSE <<RouteLeg(resp.OriginAddresses[i], resp.DestinationAddresses[j],
                    resp.Rows[i][j].Duration, resp.Rows[i][j].Meters)>>
         \o RowLegsAll(resp, i, j + 1)

RECURSIVE RowLegs(_, _, _)
\* The inner loop of getRouteMatrix over row i, from element j on.
RowLegs(resp, i, j) ==
    IF j > Len(resp.Rows[i]) THEN <<>>
    ELSE (IF resp.OriginAddresses[i] # resp.DestinationAddresses[j]
          THEN <<RouteLeg(resp.OriginAddresses[i], resp.DestinationAddresses[j],
                          resp.Rows[i][j].Duration, resp.Rows[i][j].Meters)>>
          ELSE <<>>)
         \o RowLegs(resp, i, j + 1)

RECURSIVE MatrixLegs(_, _)
\* The outer loop of getRouteMatrix, from row i on.
MatrixLegs(resp, i) ==
    IF i > Len(resp.Rows) THEN <<>>
    ELSE RowLegs(resp, i, 1) \o MatrixLegs(resp, i + 1)

\* getRouteMatrix with a failed provider call tried once more.
getRouteMatrixRetry(op, ctx, in, req, out) ==
    LET call == [Blank EXCEPT !.op = op, !.ctx = ctx, !.in = in, !.at = now,
                              !.calls = 1, !.callCtx = "caller",
                              !.req = req, !.resp = <<out>>]
    IN  IF out.err
        THEN [call EXCEPT !.calls = 2, !.resp = <<out, out>>,
                          !.err = "provider error"]
        ELSE [call EXCEPT !.ret = MatrixLegs(out, 1)]

\* geoCodeService.getRouteMatrix: the provider is called under ctx.
getRouteMatrix(op, ctx, in, req, out) ==
    LET call == [Blank EXCEPT !.op = op, !.ctx = ctx, !.in = in, !.at = now,
                              !.calls = 1, !.callCtx = "caller",
                              !.req = req, !.resp = <<out>>]
    IN  IF out.err
        THEN [call EXCEPT !.err = "provider error"]
        ELSE [call EXCEPT !.ret = MatrixLegs(out, 1)]

\* geoCodeService.GetRouteMatrixForLatLong
GetRouteMatrixForLatLong(ctx, origins, destinations) ==
    /\ svc = "ready"
    /\ last = Blank
    /\ LET req == [Origins |-> [i \in DOMAIN origins |-> LatLngString(origins[i])],
                   Destinations |-> [j \in DOMAIN destinations |->
                                        LatLngString(destinations[j])]]
       IN  \E out \in MatrixOutcomes(req) :
              last' = getRouteMatrix("GetRouteMatrixForLatLong", ctx,
                                     <<origins, destinations>>, req, out)
    /\ UNCHANGED <<cfg, peer, svc, now, ticks, ops, store, dirty, localFile, remote>>

\* geoCodeService.GetRouteMatrixForAddress
GetRouteMatrixForAddress(ctx, origins, destinations) ==
    /\ svc = "ready"
    /\ last = Blank
    /\ LET req == [Origins |-> [i \in DOMAIN origins |-> addressString(origins[i])],
                   Destinations |-> [j \in DOMAIN destinations |->
                                        addressString(destinations[j])]]
       IN  \E out \in MatrixOutcomes(req) :
              last' = getRouteMatrix("GetRouteMatrixForAddress", ctx,
                                     <<origins, destinations>>, req, out)
    /\ UNCHANGED <<cfg, peer, svc, now, ticks, ops, store, dirty, localFile, remote>>

RoutePoints == {PointOf(R1), PointOf(R2)}
PointLists ==
    {<<PointOf(R1)>>, <<PointOf(R1), PointOf(R2)>>,
     <<PointOf(R2), Point(0, 1141581879, <<>>)>>}
AddressLists ==
    {<<Address(<<>>, <<>>, <<>>, <<"9", "2">>, <<>>)>>,
     <<Address(<<>>, <<>>, <<>>, <<"9", "2">>, <<>>),
       Address(<<"9">>, <<>>, <<>>, <<"2">>, <<"u", "s", "a">>)>>}

(***************************************************************************)
(* The cache file and its remote copy.                                     *)
(***************************************************************************)
\* Store.SaveFile(): on success the file holds the whole entry mapping and
\* the dirty flag is cleared; on failure nothing changes.
CacheSaveFile(st, d, file, ok) ==
    IF ok
    THEN [err |-> NoError, file |-> FileOf(FileData(st)), dirty |-> FALSE]
    ELSE [err |-> "error saving cache file", file |-> file, dirty |-> d]

UploadOutcomes == {"ok", "request error", "upload error"}

\* uploadCache with the upload merged into the remote object: the entries of
\* the remote object that the file lacks are kept.
uploadCacheMerging(file, rem, up) ==
    IF ~file.exists
    THEN [err |-> ERROR_NO_FILE, steps |-> <<>>, remote |-> rem]
    ELSE IF up = "request error"
    THEN [err |-> up, steps |-> <<>>, remote |-> rem]
    ELSE IF up = "upload error"
    THEN [err |-> up, steps |-> <<"UploadFile">>, remote |-> rem]
    ELSE [err |-> NoError, steps |-> <<"UploadFile">>,
          remote |-> FileOf([k \in DOMAIN file.data \cup DOMAIN rem.data |->
                               IF k \in DOMAIN file.data THEN file.data[k]
                               ELSE rem.data[k]])]

\* geoCodeService.uploadCache: stat and open the file, build the request,
\* upload.  The result is the error, the storage calls made and the remote
\* object afterwards.
uploadCache(file, rem, up) ==
    IF ~file.exists
    THEN [err |-> ERROR_NO_FILE, steps |-> <<>>, remote |-> rem]
    ELSE IF up = "request error"
    THEN [err |-> up, steps |-> <<>>, remote |-> rem]
    ELSE IF up = "upload error"
    THEN [err |-> up, steps |-> <<"UploadFile">>, remote |-> rem]
    ELSE [err |-> NoError, steps |-> <<"UploadFile">>, remote |-> file]

\* Clear without the Updated() test: a cached facade always saves and uploads.
ClearCallAlways(saveOk, up) ==
    LET call == [Blank EXCEPT !.op = "Clear", !.at = now]
        s == CacheSaveFile(store, dirty, localFile, saveOk)
        u == uploadCache(s.file, remote, up)
    IN  IF cfg.Cached
        THEN IF s.err # NoError
             THEN [last |-> [call EXCEPT !.err = s.err, !.resp = <<s.err>>,
                                         !.steps = <<"SaveFile">>],
                   localFile |-> s.file, dirty |-> s.dirty, remote |-> remote]
             ELSE [last |-> [call EXCEPT !.err = u.err,
                                         !.resp = <<s.err, u.err>>,
                                         !.steps = <<"SaveFile", "uploadCache">>
                                                   \o u.steps],
                   localFile |-> s.file, dirty |-> s.dirty, remote |-> u.remote]
        ELSE [last |-> call, localFile |-> localFile, dirty |-> dirty,
              remote |-> remote]

\* Clear with the errors of SaveFile and of the upload logged and dropped: the
\* upload follows a failed save, and Clear returns nil.
ClearCallSilent(saveOk, up) ==
    LET call == [Blank EXCEPT !.op = "Clear", !.at = now]
        s == CacheSaveFile(store, dirty, localFile, saveOk)
        u == uploadCache(s.file, remote, up)
    IN  IF cfg.Cached /\ dirty
        THEN [last |-> [call EXCEPT !.resp = <<s.err, u.err>>,
                                    !.steps = <<"SaveFile", "uploadCache">>
                                              \o u.steps],
              localFile |-> s.file, dirty |-> s.dirty, remote |-> u.remote]
        ELSE [last |-> call, localFile |-> localFile, dirty |-> dirty,
              remote |-> remote]

\* geoCodeService.Clear: the call's record, the local file, the dirty flag
\* and the remote object after it.
ClearCall(saveOk, up) ==
    LET call == [Blank EXCEPT !.op = "Clear", !.at = now]
        s == CacheSaveFile(store, dirty, localFile, saveOk)
        u == uploadCache(s.file, remote, up)
    IN  IF cfg.Cached /\ dirty
        THEN IF s.err # NoError
             THEN [last |-> [call EXCEPT !.err = s.err, !.resp = <<s.err>>,
                                         !.steps = <<"SaveFile">>],
                   localFile |-> s.file, dirty |-> s.dirty, remote |-> remote]
             ELSE [last |-> [call EXCEPT !.err = u.err,
                                         !.resp = <<s.err, u.err>>,
                                         !.steps = <<"SaveFile", "uploadCache">>
                                                   \o u.steps],
                   localFile |-> s.file, dirty |-> s.dirty, remote |-> u.remote]
        ELSE [last |-> call, localFile |-> localFile, dirty |-> dirty,
              remote |-> remote]

Clear(saveOk, up) ==
    /\ svc = "ready"
    /\ last = Blank
    /\ ops < MaxOps
    /\ ops' = ops + 1
    /\ LET r == ClearCall(saveOk, up)
       IN  /\ last' = r.last
           /\ localFile' = r.localFile
           /\ dirty' = r.dirty
           /\ remote' = r.remote
    /\ UNCHANGED <<cfg, peer, svc, now, ticks, store>>

DownloadOutcomes ==
    {"ok", "directory error", "create error", "request error", "download error"}

\* geoCodeService.downloadCache: create the directory, create the file,
\* build the request, download into the file.  The result is the error, the
\* storage calls made and the local file afterwards.
downloadCache(file, rem, dl) ==
    IF dl = "directory error"
    THEN [err |-> dl, steps |-> <<>>, file |-> file]
    ELSE IF dl = "create error"
    THEN [err |-> ERROR_CREATING_FILE, steps |-> <<>>, file |-> file]
    ELSE IF dl = "request error"
    THEN [err |-> dl, steps |-> <<>>, file |-> BrokenFile]
    ELSE IF dl = "download error" \/ ~rem.exists
    THEN [err |-> "download error", steps |-> <<"DownloadFile">>,
          file |-> BrokenFile]
    ELSE [err |-> NoError, steps |-> <<"DownloadFile">>, file |-> rem]

\* NewGeoCodeService with a failed download returned as the constructor's
\* error.
NewGeoCodeServiceCallStrict(dl) ==
    LET call == [Blank EXCEPT !.op = "NewGeoCodeService", !.at = now]
        d == downloadCache(localFile, remote, dl)
    IN  IF cfg.GeocoderKey = <<>>
        THEN [last |-> [call EXCEPT !.err = ERROR_MISSING_REQUIRED],
              svc |-> "failed", localFile |-> localFile, store |-> store]
        ELSE IF ~cfg.Cached
        THEN [last |-> call, svc |-> "ready", localFile |-> localFile,
              store |-> store]
        ELSE IF ~localFile.exists /\ d.err # NoError
        THEN [last |-> [call EXCEPT !.steps = <<"downloadCache">> \o d.steps,
                                    !.resp = <<d.err>>, !.err = d.err],
              svc |-> "failed", localFile |-> d.file, store |-> store]
        ELSE IF ~localFile.exists
        THEN [last |-> [call EXCEPT !.steps = <<"downloadCache">> \o d.steps,
                                    !.resp = <<d.err>>],
              svc |-> "ready", localFile |-> d.file,
              store |-> NewCacheService(d.file)]
        ELSE [last |-> call, svc |-> "ready", localFile |-> localFile,
              store |-> NewCacheService(localFile)]

\* NewGeoCodeService: the call's record, the facade it returns ("failed" when
\* it returns nil and an error), the local file and the store after it.
NewGeoCodeServiceCall(dl) ==
    LET call == [Blank EXCEPT !.op = "NewGeoCodeService", !.at = now]
        d == downloadCache(localFile, remote, dl)
    IN  IF cfg.GeocoderKey = <<>>
        THEN [last |-> [call EXCEPT !.err = ERROR_MISSING_REQUIRED],
              svc |-> "failed", localFile |-> localFile, store |-> store]
        ELSE IF ~cfg.Cached
        THEN [last |-> call, svc |-> "ready", localFile |-> localFile,
              store |-> store]
        ELSE IF ~localFile.exists
        THEN [last |-> [call EXCEPT !.steps = <<"downloadCache">> \o d.steps,
                                    !.resp = <<d.err>>, !.cacheErr = d.err],
              svc |-> "ready", localFile |-> d.file,
              store |-> NewCacheService(d.file)]
        ELSE [last |-> call, svc |-> "ready", localFile |-> localFile,
              store |-> NewCacheService(localFile)]

NewGeoCodeService(dl) ==
    /\ svc = "none"
    /\ last = Blank
    /\ LET r == NewGeoCodeServiceCall(dl)
       IN  /\ last' = r.last
           /\ svc' = r.svc
           /\ localFile' = r.localFile
           /\ store' = r.store
    /\ UNCHANGED <<cfg, peer, now, ticks, ops, dirty, remote>>

\* The caller takes the result of the call; the facade is idle again.
Return ==
    /\ last # Blank
    /\ last' = Blank
    /\ UNCHANGED <<cfg, peer, svc, now, ticks, ops, store, dirty, localFile, remote>>

\* Time passes.
Tick ==
    /\ svc = "ready"
    /\ last = Blank
    /\ ticks < MaxTicks
    /\ now' = now + OneYear
    /\ ticks' = ticks + 1
    /\ UNCHANGED <<cfg, peer, svc, ops, store, dirty, localFile, remote, last>>

(***************************************************************************)
(* The state machine.                                                      *)
(***************************************************************************)
\* A cache file left by earlier sessions: one entry still valid for a year,
\* one whose expiry is the present second, one already expired.
SeedData ==
    (buildKey(<<"9", "2">>) :>
        [obj |-> MarshalJSON(ValPoint(PointOf(R1))), exp |-> 2 * OneYear])
    @@ (buildLatLngKey(0, 0) :>
        [obj |-> MarshalJSON(ValPoint(PointOf(R2))), exp |-> OneYear])
    @@ (buildKey(<<"9", "2", " ", "U", "S", "A">>) :>
        [obj |-> MarshalJSON(ValPoint(PointOf(R2))), exp |-> OneYear - 1])

\* A second facade process that has not been constructed yet, on a machine
\* of its own (its cache file is not the first one's).
NoPeer ==
    [svc |-> "none", store |-> EmptyMap, dirty |-> FALSE, localFile |-> NoFile,
     ops |-> 0]

Init ==
    /\ cfg \in [GeocoderKey : {<<>>, <<"k">>}, Cached : BOOLEAN]
    /\ svc = "none"
    /\ now = OneYear
    /\ ticks = 0
    /\ ops = 0
    /\ store = EmptyMap
    /\ dirty = FALSE
    /\ localFile \in {NoFile, FileOf(SeedData)}
    /\ remote \in {NoFile, FileOf(SeedData)}
    /\ last = Blank
    /\ peer = NoPeer

\* The outcomes worth drawing for the collaborator calls of one lookup: no
\* provider call is made under a nil context, and no cache write without a
\* result to write.
OutcomesFor(ctx) ==
    IF ctx THEN ProviderOutcomes ELSE {[err |-> TRUE, results |-> <<>>]}
SetOutcomesFor(out) ==
    IF cfg.Cached /\ ~out.err /\ out.results # <<>> THEN BOOLEAN ELSE {TRUE}

Next ==
    \/ \E dl \in DownloadOutcomes : NewGeoCodeService(dl)
    \/ \E ctx \in BOOLEAN, pc \in PostalCodes, cc \in CountryCodes :
          \E out \in OutcomesFor(ctx) : \E setOk \in SetOutcomesFor(out) :
             Geocode(ctx, pc, cc, out, setOk)
    \/ \E ctx \in BOOLEAN, addr \in AddressQueries :
          \E out \in OutcomesFor(ctx) : \E setOk \in SetOutcomesFor(out) :
             GeocodeAddress(ctx, addr, out, setOk)
    \/ \E ctx \in BOOLEAN, ll \in LatLngs, hint \in Hints :
          \E out \in OutcomesFor(ctx) : \E setOk \in SetOutcomesFor(out) :
             GeocodeLatLong(ctx, ll[1], ll[2], hint, out, setOk)
    \/ \E saveOk \in BOOLEAN, up \in UploadOutcomes : Clear(saveOk, up)
    \/ Return
    \/ Tick

\* The cache-facing operations: construction, the three lookups, Clear.
Spec == Init /\ [][Next]_vars

\* The operations that touch neither the store nor the files: the distance
\* and the routes, on a constructed facade.
NextRoute ==
    \/ \E dl \in DownloadOutcomes : NewGeoCodeService(dl)
    \/ \E ctx \in BOOLEAN, u \in UnitArgs, a \in PointArgs, b \in PointArgs :
          GetDistance(ctx, u, a, b)
    \/ \E ctx \in BOOLEAN, a \in RoutePoints, b \in RoutePoints,
          out \in DirectionsOutcomes : GetRouteForLatLong(ctx, a, b, out)
    \/ \E ctx \in BOOLEAN, a \in AddressQueries, b \in AddressQueries,
          out \in DirectionsOutcomes : GetRouteForAddress(ctx, a, b, out)
    \/ \E ctx \in BOOLEAN, os \in PointLists, ds \in PointLists :
          GetRouteMatrixForLatLong(ctx, os, ds)
    \/ \E ctx \in BOOLEAN, os \in AddressLists, ds \in AddressLists :
          GetRouteMatrixForAddress(ctx, os, ds)
    \/ Return

RouteSpec == Init /\ [][NextRoute]_vars

(***************************************************************************)
(* Two facade processes that share one remote object.  Each has its own    *)
(* store, dirty flag and cache file; peer holds those of the process that  *)
(* is not running, and Switch hands the processor to it between two calls. *)
(***************************************************************************)
Switch ==
    /\ last = Blank
    /\ peer' = [svc |-> svc, store |-> store, dirty |-> dirty,
                localFile |-> localFile, ops |-> ops]
    /\ svc' = peer.svc
    /\ store' = peer.store
    /\ dirty' = peer.dirty
    /\ localFile' = peer.localFile
    /\ ops' = peer.ops
    /\ UNCHANGED <<cfg, now, ticks, remote, last>>

\* The remote object both processes start from: one entry, still valid.
SyncSeed == [k \in {buildKey(<<"9", "2">>)} |-> SeedData[k]]

\* Both processes are configured alike, with caching on, and neither has a
\* cache file yet.
SyncInit ==
    /\ cfg = [GeocoderKey |-> <<"k">>, Cached |-> TRUE]
    /\ svc = "none"
    /\ now = OneYear
    /\ ticks = 0
    /\ ops = 0
    /\ store = EmptyMap
    /\ dirty = FALSE
    /\ localFile = NoFile
    /\ remote = FileOf(SyncSeed)
    /\ last = Blank
    /\ peer = NoPeer

\* What the two processes do: each is constructed (the download works or
\* fails), looks up an address and a coordinate pair (the provider fails or
\* gives one result), and runs Clear.
SyncDownloads == {"ok", "download error"}
SyncOutcomes == {[err |-> TRUE, results |-> <<>>],
                 [err |-> FALSE, results |-> <<R1>>]}
SyncAddress == Address(<<>>, <<>>, <<>>, <<"9", "2">>, <<>>)
SyncLatLng == <<0, 1141581879>>

NextSync ==
    \/ \E dl \in SyncDownloads : NewGeoCodeService(dl)
    \/ \E out \in SyncOutcomes : \E setOk \in SetOutcomesFor(out) :
          GeocodeAddress(TRUE, SyncAddress, out, setOk)
    \/ \E out \in SyncOutcomes : \E setOk \in SetOutcomesFor(out) :
          GeocodeLatLong(TRUE, SyncLatLng[1], SyncLatLng[2], <<>>, out, setOk)
    \/ \E saveOk \in BOOLEAN, up \in UploadOutcomes : Clear(saveOk, up)
    \/ Return
    \/ Switch

SyncSpec == SyncInit /\ [][NextSync]_vars

(***************************************************************************)
(* The two sync helpers on their own: uploadCache and downloadCache are    *)
(* applied to a constructed facade whatever the state of its cache file,   *)
(* and the storage request each builds is recorded.                        *)
(***************************************************************************)
\* fStats.ModTime().Unix() of an existing cache file, as the file system
\* reports it.
ModTimes == {OneYear - 1, OneYear}

\* uploadCache's request: fmod := fStats.ModTime().Unix() is handed to
\* NewCloudFileRequest.
uploadRequest(mt) ==
    LET fmod == mt
    IN  [fmod |-> fmod]

\* downloadCache's request: "var fmod int64" is what NewCloudFileRequest
\* gets; "fmod := fStats.ModTime().Unix()" inside "if err == nil" declares
\* another variable, which is logged and dropped at the end of the block.
downloadRequest(found, mt) ==
    LET fmod == 0
        logged == IF found THEN mt ELSE fmod
    IN  [fmod |-> fmod]

\* uploadCache applied to the facade's cache file.
UploadCache(mt, up) ==
    /\ svc = "ready"
    /\ cfg.Cached
    /\ last = Blank
    /\ LET u == uploadCache(localFile, remote, up)
       IN  /\ last' = [Blank EXCEPT !.op = "uploadCache",
                                    !.in = <<localFile.exists, mt>>,
                                    !.req = IF localFile.exists
                                            THEN <<uploadRequest(mt)>> ELSE <<>>,
                                    !.err = u.err, !.steps = u.steps,
                                    !.at = now]
           /\ remote' = u.remote
    /\ UNCHANGED <<cfg, peer, svc, now, ticks, ops, store, dirty, localFile>>

\* downloadCache applied to the facade's cache file.
DownloadCache(mt, dl) ==
    /\ svc = "ready"
    /\ cfg.Cached
    /\ last = Blank
    /\ LET d == downloadCache(localFile, remote, dl)
       IN  /\ last' = [Blank EXCEPT !.op = "downloadCache",
                                    !.in = <<localFile.exists, mt>>,
                                    !.req = IF dl \in {"directory error",
                                                       "create error"}
                                            THEN <<>>
                                            ELSE <<downloadRequest(
                                                      localFile.exists, mt)>>,
                                    !.err = d.err, !.steps = d.steps,
                                    !.at = now]
           /\ localFile' = d.file
    /\ UNCHANGED <<cfg, peer, svc, now, ticks, ops, store, dirty, remote>>

\* The modification times there are to read: none of a file that is absent.
ModTimesOf(file) == IF file.exists THEN ModTimes ELSE {0}

NextFile ==
    \/ \E dl \in DownloadOutcomes : NewGeoCodeService(dl)
    \/ \E mt \in ModTimesOf(localFile), up \in UploadOutcomes :
          UploadCache(mt, up)
    \/ \E mt \in ModTimesOf(localFile), dl \in DownloadOutcomes :
          DownloadCache(mt, dl)
    \/ Return

FileSpec == Init /\ [][NextFile]_vars

(***************************************************************************)
(* The key builders on their own: buildKey and buildLatLngKey are pure, so  *)
(* they are applied to raw keys and coordinates drawn from small sets.     *)
(***************************************************************************)
\* The characters of a raw key: a letter in both cases, a space, a tab, and
\* a character url.QueryEscape escapes.
KeyChars == {"A", "a", " ", "\t", ","}
KeyInputs == UNION {[1 .. n -> KeyChars] : n \in 0 .. MaxLen}

\* Coordinates in units of 1e-7 degrees.
Coordinates == {0, 5, -4, 336600004, -1178300000}

\* buildKey applied to x.
BuildKey(x) ==
    /\ last = Blank
    /\ last' = [Blank EXCEPT !.op = "buildKey", !.in = <<x>>,
                             !.ret = <<buildKey(x)>>, !.at = now]
    /\ UNCHANGED <<cfg, peer, svc, now, ticks, ops, store, dirty, localFile, remote>>

\* buildLatLngKey applied to lat, lng.
BuildLatLngKey(lat, lng) ==
    /\ last = Blank
    /\ last' = [Blank EXCEPT !.op = "buildLatLngKey", !.in = <<lat, lng>>,
                             !.ret = <<buildLatLngKey(lat, lng)>>, !.at = now]
    /\ UNCHANGED <<cfg, peer, svc, now, ticks, ops, store, dirty, localFile, remote>>

\* The address queries addressString is applied to: every field empty or
\* not, the street with a space of its own.
AddressArgs ==
    {Address(st, ci, sa, po, co) :
        st \in {<<>>, <<"1", " ", "s">>}, ci \in {<<>>, <<"c">>},
        sa \in {<<>>, <<"t">>}, po \in {<<>>, <<"9", "2">>},
        co \in {<<>>, <<"u">>}}

\* addressString applied to a.
AddressString(a) ==
    /\ last = Blank
    /\ last' = [Blank EXCEPT !.op = "addressString", !.in = <<a>>,
                             !.ret = <<addressString(a)>>, !.at = now]
    /\ UNCHANGED <<cfg, peer, svc, now, ticks, ops, store, dirty, localFile, remote>>

NextKey ==
    \/ \E x \in KeyInputs : BuildKey(x)
    \/ \E lat \in Coordinates, lng \in Coordinates : BuildLatLngKey(lat, lng)
    \/ \E a \in AddressArgs : AddressString(a)
    \/ Return

\* The key builders read nothing of the facade: one configuration is enough.
KeyInit ==
    /\ Init
    /\ cfg = [GeocoderKey |-> <<"k">>, Cached |-> TRUE]
    /\ localFile = NoFile
    /\ remote = NoFile

KeySpec == KeyInit /\ [][NextKey]_vars

(***************************************************************************)
(* Properties.                                                             *)
(***************************************************************************)
GeocodeOps == {"Geocode", "GeocodeAddress", "GeocodeLatLong"}

\* The keys the three lookups hand to getFromCache and setInCache.
RawKeys ==
    PostalCodes
    \cup {addressString(IF a.Country = <<>>
                         THEN [a EXCEPT !.Country = DefaultCountry] ELSE a) :
             a \in AddressQueries}
    \cup {buildLatLngKey(ll[1], ll[2]) : ll \in LatLngs}

\* The last call went to the provider, got a result and stored it.
Stored ==
    /\ last.op \in GeocodeOps
    /\ cfg.Cached
    /\ last.calls = 1
    /\ last.err = NoError
    /\ last.cacheErr = NoError

\* C1: with caching on and no time passing, after a GeocodeAddress call that
\* missed the cache, got a result from the provider and stored it, the same
\* call made again returns the stored point without a provider call.
C1_SecondCallFromCache ==
    (Stored /\ last.op = "GeocodeAddress") =>
        \A out \in ProviderOutcomes, setOk \in BOOLEAN :
            LET second == GeocodeAddressCall(TRUE, last.in[1], out, setOk).last
            IN  /\ second.calls = 0
                /\ second.err = NoError
                /\ second.ret = last.ret

\* C2: right after setInCache stored point v under key k, getFromCache(k)
\* returns v and no error.
C2_SetThenGet ==
    Stored =>
        LET g == getFromCache(last.key)
        IN  g.err = NoError /\ g.pt = last.ret

\* C3: reading a key whose stored expiry is not later than the present yields
\* an expired/miss condition, and no lookup returns a cached point whose
\* expiry has passed.
C3_NoStaleHit ==
    /\ \A k \in RawKeys :
          (buildKey(k) \in DOMAIN store /\ store[buildKey(k)].exp <= now)
             => (getFromCache(k).err # NoError /\ getFromCache(k).pt = <<>>)
    /\ (last.op \in GeocodeOps /\ last.lookup = "hit") =>
          /\ buildKey(last.key) \in DOMAIN store
          /\ store[buildKey(last.key)].exp > last.at
          /\ last.ret = <<store[buildKey(last.key)].val.pt>>
          /\ last.calls = 0

\* A lookup met an entry expiring at the very instant of the call and took it
\* for expired.
C3_Witness ==
    /\ last.op \in GeocodeOps
    /\ last.lookup = "Expired"
    /\ buildKey(last.key) \in DOMAIN store
    /\ store[buildKey(last.key)].exp = last.at

\* What the provider's answer means for the caller of op.
ProviderErrorOf(op) ==
    IF op = "Geocode" THEN ErrGeoCodePostalCode ELSE ErrGeoCodeAddress
ProviderOutcomeOf(l) ==
    LET out == l.resp[1]
    IN  IF out.err THEN [err |-> ProviderErrorOf(l.op), ret |-> <<>>]
        ELSE IF out.results = <<>>
        THEN [err |-> ErrGeoCodeNoResults, ret |-> <<>>]
        ELSE [err |-> NoError, ret |-> <<PointOf(out.results[1])>>]

\* C4: with caching on, a failed cache lookup (key absent, entry expired,
\* stored value not a Point) never fails the operation: the provider is called
\* and the operation's outcome is the provider's outcome.
C4_MissFallsThrough ==
    (last.op \in GeocodeOps /\ last.lookup \in {"NotFound", "Expired", "NotAPoint"})
       => /\ cfg.Cached
          /\ last.calls = 1
          /\ last.err = ProviderOutcomeOf(last).err
          /\ last.ret = ProviderOutcomeOf(last).ret

\* A lookup found a value that is not a Point and still returned the
\* provider's point.
C4_Witness ==
    /\ last.op \in GeocodeOps
    /\ last.lookup = "NotAPoint"
    /\ last.calls = 1
    /\ last.err = NoError
    /\ last.ret # <<>>

\* C5: Clear saves the cache file and uploads it if and only if caching is on
\* and the store is dirty; otherwise it returns nil, the local file and the
\* remote object are untouched and no storage call is made.
C5_ClearOnlyWhenDirty ==
    [][(last = Blank /\ last'.op = "Clear") =>
          /\ ("SaveFile" \in Range(last'.steps)) <=> (cfg.Cached /\ dirty)
          /\ ("uploadCache" \in Range(last'.steps)) =>
                (cfg.Cached /\ dirty /\ localFile' = FileOf(FileData(store)))
          /\ ~(cfg.Cached /\ dirty) =>
                /\ last'.err = NoError
                /\ last'.steps = <<>>
                /\ localFile' = localFile
                /\ remote' = remote
                /\ dirty' = dirty]_vars

\* Clear on a cached facade whose session left the store clean: nothing was
\* saved or uploaded.
C5_Witness ==
    /\ last.op = "Clear"
    /\ cfg.Cached
    /\ store # EmptyMap
    /\ ops = 2
    /\ ~dirty
    /\ last.steps = <<>>
    /\ last.err = NoError

\* C6: in Clear on a dirty store SaveFile runs first, the upload is attempted
\* only after SaveFile succeeded, and the error of either step is the error
\* Clear returns.
C6_SaveThenUpload ==
    (last.op = "Clear" /\ last.steps # <<>>) =>
        /\ last.steps[1] = "SaveFile"
        /\ \A i \in DOMAIN last.steps :
              last.steps[i] \in {"uploadCache", "UploadFile"} => i > 1
        /\ last.resp[1] # NoError =>
              (last.steps = <<"SaveFile">> /\ last.err = last.resp[1])
        /\ last.resp[1] = NoError =>
              /\ Len(last.steps) >= 2
              /\ last.steps[2] = "uploadCache"
              /\ last.err = last.resp[2]
              /\ localFile = FileOf(FileData(store))
        /\ last.err = NoError => remote = localFile

\* Clear saved the file, tried the upload, and returned the upload's error.
C6_Witness ==
    /\ last.op = "Clear"
    /\ last.steps = <<"SaveFile", "uploadCache", "UploadFile">>
    /\ last.err = "upload error"

C8_NilContextFailsFast ==
    (last.op \notin {"none", "NewGeoCodeService", "Clear"} /\ ~last.ctx) =>
        /\ last.err = ErrNilContext
        /\ last.calls = 0
        /\ last.lookup = "none"

\* C9: when Geocode reaches the provider, a failed call yields
\* ErrGeoCodePostalCode, a call with zero results yields ErrGeoCodeNoResults,
\* and a call with results yields the point built from the first result.
C9_ProviderOutcome ==
    (last.op = "Geocode" /\ last.calls = 1) =>
        LET out == last.resp[1]
        IN  /\ out.err => (last.err = ErrGeoCodePostalCode /\ last.ret = <<>>)
            /\ (~out.err /\ Len(out.results) = 0) =>
                  (last.err = ErrGeoCodeNoResults /\ last.ret = <<>>)
            /\ (~out.err /\ Len(out.results) > 0) =>
                  (last.err = NoError /\ last.ret = <<PointOf(out.results[1])>>)

\* Geocode got two different results and returned the first.
C9_Witness ==
    /\ last.op = "Geocode"
    /\ last.calls = 1
    /\ Len(last.resp[1].results) = 2
    /\ last.resp[1].results[1] # last.resp[1].results[2]
    /\ last.ret = <<PointOf(last.resp[1].results[1])>>

\* hint is a substring of addr (case-sensitive).
Contains(addr, hint) ==
    \E i \in 0 .. Len(addr) :
        /\ i + Len(hint) <= Len(addr)
        /\ SubSeq(addr, i + 1, i + Len(hint)) = hint

\* The first result whose formatted address contains the hint, else the first
\* result.
HintChoice(results, hint) ==
    LET idx == {i \in DOMAIN results :
                   Contains(results[i].FormattedAddress, hint)}
    IN  IF idx = {} THEN results[1]
        ELSE results[CHOOSE i \in idx : \A j \in idx : i <= j]

\* C10: when the provider returns several results for GeocodeLatLong, the
\* returned point is built from the first result whose formatted address
\* contains the hint, and from the first result when none contains it.
C10_HintPreferred ==
    (/\ last.op = "GeocodeLatLong"
     /\ last.calls = 1
     /\ ~last.resp[1].err
     /\ Len(last.resp[1].results) > 0)
       => last.ret = <<PointOf(HintChoice(last.resp[1].results, last.in[3]))>>

\* C11: GetDistance returns ErrInvalidGeoLatLng whenever either point is nil or
\* has a zero latitude or longitude, whatever the unit; for two valid points it
\* returns ErrInvalidGeoUnit for a unit other than KM, MILES, METERS, FEET and
\* no error for one of those four.
C11_DistanceErrors ==
    last.op = "GetDistance" =>
        LET u == last.in[1]
            source == last.in[2]
            dest == last.in[3]
            bad(p) == p = <<>> \/ p[1].Latitude = 0 \/ p[1].Longitude = 0
        IN  /\ (bad(source) \/ bad(dest)) =>
                  (last.err = ErrInvalidGeoLatLng /\ last.ret = <<>>)
            /\ (~bad(source) /\ ~bad(dest)
                  /\ u \notin {"KM", "MILES", "METERS", "FEET"}) =>
                  (last.err = ErrInvalidGeoUnit /\ last.ret = <<>>)
            /\ (~bad(source) /\ ~bad(dest)
                  /\ u \in {"KM", "MILES", "METERS", "FEET"}) =>
                  (last.err = NoError /\ last.ret # <<>>)

\* GetDistance was given an unknown unit and a point with a zero latitude, and
\* reported the point.
C11_Witness ==
    /\ last.op = "GetDistance"
    /\ last.in[1] = "YARDS"
    /\ last.in[2] # <<>>
    /\ last.in[2][1].Latitude = 0
    /\ last.in[2][1].Longitude # 0
    /\ last.in[3] # <<>>
    /\ last.err = ErrInvalidGeoLatLng

MatrixOps == {"GetRouteMatrixForLatLong", "GetRouteMatrixForAddress"}

\* C12: the route-matrix operations return one leg for every cell (i, j) of the
\* provider response whose origin and destination addresses differ, in
\* row-major order, and none for a cell whose two addresses are identical; two
\* origins and two destinations that share exactly one place give three legs.
C12_MatrixLegs ==
    (last.op \in MatrixOps /\ ~last.resp[1].err) =>
        LET resp == last.resp[1]
            n == Len(resp.Rows)
            m == IF n = 0 THEN 0 ELSE Len(resp.Rows[1])
            cells == [k \in 1 .. n * m |-> <<((k - 1) \div m) + 1, ((k - 1) % m) + 1>>]
            differs(c) == resp.OriginAddresses[c[1]] # resp.DestinationAddresses[c[2]]
            kept == SelectSeq(cells, differs)
        IN  /\ last.err = NoError
            /\ last.ret =
                  [k \in 1 .. Len(kept) |->
                      RouteLeg(resp.OriginAddresses[kept[k][1]],
                               resp.DestinationAddresses[kept[k][2]],
                               resp.Rows[kept[k][1]][kept[k][2]].Duration,
                               resp.Rows[kept[k][1]][kept[k][2]].Meters)]
            /\ (/\ Len(last.req.Origins) = 2
                /\ Len(last.req.Destinations) = 2
                /\ resp.OriginAddresses = last.req.Origins
                /\ resp.DestinationAddresses = last.req.Destinations
                /\ Cardinality(Range(last.req.Origins)) = 2
                /\ Cardinality(Range(last.req.Destinations)) = 2
                /\ Cardinality(Range(last.req.Origins)
                               \cap Range(last.req.Destinations)) = 1)
                  => Len(last.ret) = 3

\* Two origins and two destinations with one point in common came back as
\* three legs.
C12_Witness ==
    /\ last.op = "GetRouteMatrixForLatLong"
    /\ Len(last.in[1]) = 2
    /\ Len(last.in[2]) = 2
    /\ Cardinality(Range(last.in[1]) \cap Range(last.in[2])) = 1
    /\ Len(last.ret) = 3

\* C13: buildKey is idempotent: buildKey(buildKey(x)) = buildKey(x) for every
\* raw key x, also when x holds characters the percent-encoding escapes.
C13_Idempotent ==
    last.op = "buildKey" => buildKey(last.ret[1]) = last.ret[1]

\* s without its leading and trailing characters from ws.
RECURSIVE TrimLeft(_, _)
TrimLeft(s, ws) ==
    IF s # <<>> /\ Head(s) \in ws THEN TrimLeft(Tail(s), ws) ELSE s
RECURSIVE TrimRight(_, _)
TrimRight(s, ws) ==
    IF s # <<>> /\ s[Len(s)] \in ws
    THEN TrimRight(SubSeq(s, 1, Len(s) - 1), ws) ELSE s
Trim(s, ws) == TrimRight(TrimLeft(s, ws), ws)

\* x and y differ only by letter case or by surrounding characters from ws.
SameUpTo(x, y, ws) == ToLower(Trim(x, ws)) = ToLower(Trim(y, ws))

\* C14 as stated: two raw keys that differ only by letter case or by
\* surrounding whitespace (spaces, tabs) get the same cache key.
C14_CaseAndWhitespace ==
    last.op = "buildKey" =>
        \A y \in KeyInputs :
            SameUpTo(last.in[1], y, {" ", "\t"}) => buildKey(y) = last.ret[1]

\* C14 amended: two raw keys that differ only by letter case or by surrounding
\* space characters get the same cache key.
C14_CaseAndSpaces ==
    last.op = "buildKey" =>
        \A y \in KeyInputs :
            SameUpTo(last.in[1], y, {" "}) => buildKey(y) = last.ret[1]

\* buildKey was given an upper-case letter between spaces and returned the
\* key of the bare lower-case letter.
C14_Witness ==
    /\ last.op = "buildKey"
    /\ last.in[1] = <<" ", "A", " ">>
    /\ last.ret[1] = <<"a">>
    /\ last.ret[1] = buildKey(<<"a">>)

\* C15: with caching off no operation reads or writes the cache store and no
\* file is saved, downloaded or uploaded; Geocode returns the provider's first
\* result and Clear returns nil.
C15_NoCacheWhenDisabled ==
    [][~cfg.Cached =>
          /\ UNCHANGED <<store, dirty, localFile, remote>>
          /\ store' = EmptyMap
          /\ last'.lookup = "none"
          /\ last'.key = <<>>
          /\ last'.steps = <<>>
          /\ last'.cacheErr = NoError
          /\ last'.op = "Clear" => last'.err = NoError
          /\ (last'.op = "Geocode" /\ last'.ctx) =>
                /\ last'.calls = 1
                /\ last'.err = ProviderOutcomeOf(last').err
                /\ last'.ret = ProviderOutcomeOf(last').ret]_vars

\* An uncached facade, built where a cached one would have downloaded the
\* remote file, returned the provider's first result from Geocode.
C15_Witness ==
    /\ ~cfg.Cached
    /\ last.op = "Geocode"
    /\ last.calls = 1
    /\ Len(last.resp[1].results) = 2
    /\ last.ret = <<PointOf(last.resp[1].results[1])>>
    /\ localFile = NoFile
    /\ remote = FileOf(SeedData)
    /\ store = EmptyMap

C17_OnlyClearSaves ==
    [][/\ (last'.op \notin {"none", "NewGeoCodeService", "Clear"}) =>
             /\ UNCHANGED <<localFile, remote>>
             /\ last'.steps = <<>>
             /\ dirty => dirty'
       /\ remote' # remote => last'.op = "Clear"
       /\ localFile' # localFile => last'.op \in {"Clear", "NewGeoCodeService"}
      ]_vars

\* Two lookups wrote two entries; the store is dirty and there is still no
\* cache file, local or remote.
C17_Witness ==
    /\ Stored
    /\ ops = 2
    /\ Cardinality(DOMAIN store) >= 2
    /\ \A k \in DOMAIN store : store[k].val.kind = "*Point"
    /\ dirty
    /\ localFile = NoFile
    /\ remote = NoFile

\* C18: every cache write of the facade passes ttl = 0, which setInCache
\* replaces by OneYear = 365 * 24 * 30 hours, so the written entry expires at
\* write time + OneYear, strictly after the write.
C18_DefaultTTL ==
    /\ OneYear = 365 * 24 * 30
    /\ Stored =>
          /\ buildKey(last.key) \in DOMAIN store
          /\ store[buildKey(last.key)].val = PtrPoint(last.ret[1])
          /\ store[buildKey(last.key)].exp = last.at + OneYear
          /\ store[buildKey(last.key)].exp > last.at

\* A lookup made a year after construction wrote an entry expiring a year
\* after that.
C18_Witness ==
    /\ Stored
    /\ ticks = 1
    /\ last.at = 2 * OneYear
    /\ store[buildKey(last.key)].exp = 3 * OneYear

\* C19: with caching on, Geocode looks the entry up by the raw postal code
\* alone (normalized by the cache helper), and asks the provider with an empty
\* country code replaced by "USA"; a point cached for a postal code is
\* returned for that postal code under every country code, without a provider
\* call.
C19_PostalKey ==
    (last.op = "Geocode" /\ cfg.Cached /\ last.ctx) =>
        /\ last.key = last.in[1]
        /\ last.lookup # "none"
        /\ last.calls = 1 =>
              last.req = <<last.in[1],
                           IF last.in[2] = <<>> THEN <<"U", "S", "A">>
                           ELSE last.in[2]>>
        /\ last.lookup = "hit" =>
              /\ last.calls = 0
              /\ \A cc \in CountryCodes, out \in ProviderOutcomes,
                    setOk \in BOOLEAN :
                    LET other == GeocodeCall(TRUE, last.in[1], cc, out, setOk).last
                    IN  other.calls = 0 /\ other.ret = last.ret

\* Geocode with country code "US" returned the point cached for the postal
\* code.
C19_Witness ==
    /\ last.op = "Geocode"
    /\ cfg.Cached
    /\ last.in[2] = <<"U", "S">>
    /\ last.lookup = "hit"
    /\ last.ret = <<PointOf(R1)>>

\* s with every "." spelled "dot" and every "-" spelled "min".
RECURSIVE Tokens(_)
Tokens(s) ==
    IF s = <<>> THEN <<>>
    ELSE (IF Head(s) = "." THEN <<"d", "o", "t">>
          ELSE IF Head(s) = "-" THEN <<"m", "i", "n">>
          ELSE <<Head(s)>>) \o Tokens(Tail(s))

Lat0Lng0 == <<"l", "a", "t", "0", "l", "n", "g", "0">>

\* C20: buildLatLngKey maps every pair with a zero latitude or longitude to
\* "lat0lng0" and every other pair to "lat<lat>lng<long>", both to 6 decimal
\* digits, "." spelled "dot" and "-" spelled "min"; so GeocodeLatLong for any
\* point with a zero coordinate reads and writes the one entry "lat0lng0".
C20_LatLngKey ==
    last.op = "buildLatLngKey" =>
        LET lat == last.in[1]
            lng == last.in[2]
            key == last.ret[1]
        IN  /\ (lat = 0 \/ lng = 0) =>
                  /\ key = Lat0Lng0
                  /\ \A hint \in Hints, out \in ProviderOutcomes, setOk \in BOOLEAN :
                        LET r == GeocodeLatLongCall(TRUE, lat, lng, hint, out, setOk)
                        IN  /\ r.last.key = Lat0Lng0
                            /\ r.last.lookup # "none"
                            /\ DOMAIN r.store \subseteq {Lat0Lng0}
            /\ (lat # 0 /\ lng # 0) =>
                  /\ key = Tokens(<<"l", "a", "t">> \o FormatF6(lat)
                                  \o <<"l", "n", "g">> \o FormatF6(lng))
                  /\ key # Lat0Lng0
                  /\ "." \notin Range(key)
                  /\ "-" \notin Range(key)
            /\ (lat = 336600004 /\ lng = -1178300000) =>
                  key = <<"l", "a", "t", "3", "3", "d", "o", "t",
                          "6", "6", "0", "0", "0", "0",
                          "l", "n", "g", "m", "i", "n", "1", "1", "7",
                          "d", "o", "t", "8", "3", "0", "0", "0", "0">>

\* Two different points, each with one zero coordinate, got the same key.
C20_Witness ==
    /\ last.op = "buildLatLngKey"
    /\ last.in = <<0, -1178300000>>
    /\ last.ret = <<Lat0Lng0>>
    /\ buildLatLngKey(336600004, 0) = last.ret[1]

\* C21: a cache hit leaves the store as it was: no entry is written, no expiry
\* is renewed, the dirty flag is not set, and the provider is not called.
C21_HitLeavesStore ==
    [][(last = Blank /\ last'.op \in GeocodeOps /\ last'.lookup = "hit") =>
          /\ store' = store
          /\ dirty' = dirty
          /\ last'.calls = 0
          /\ store'[buildKey(last'.key)].exp > now]_vars

\* The second of two lookups was a hit, and the store is still the one loaded
\* from the cache file.
C21_Witness ==
    /\ last.op \in GeocodeOps
    /\ last.lookup = "hit"
    /\ ops = 2
    /\ ~dirty
    /\ store = NewCacheService(FileOf(SeedData))

\* C22: every provider call of a public operation is made under the context
\* the caller supplied.
C22_CallerContext == last.calls >= 1 => last.callCtx = "caller"

\* C25: in the three lookups a failed cache write after a provider call with
\* results is only logged, the call returns the provider's point and no
\* error; a failed provider call always returns an error and no point.
C25_ErrorLayers ==
    (last.op \in GeocodeOps /\ last.calls = 1) =>
        /\ last.resp[1].err => (last.err # NoError /\ last.ret = <<>>)
        /\ last.cacheErr # NoError =>
              /\ ~last.resp[1].err
              /\ last.err = NoError
              /\ last.ret = <<PointOf(last.resp[1].results[1])>>

\* A lookup whose cache write failed returned the provider's point, and the
\* store has no entry for its key.
C25_Witness ==
    /\ last.op \in GeocodeOps
    /\ last.calls = 1
    /\ last.cacheErr # NoError
    /\ last.err = NoError
    /\ last.ret # <<>>
    /\ buildKey(last.key) \notin DOMAIN store

\* C27: an operation calls the provider at most once, not at all on a cache
\* hit or on an error found in its arguments; a failed provider call ends it
\* with an error and nothing returned, so a failed matrix call returns no
\* legs.
C27_NoRetry ==
    /\ last.calls \in {0, 1}
    /\ last.calls = 1 => Len(last.resp) = 1
    /\ (last.lookup = "hit" \/ last.err \in {ErrNilContext, ErrInvalidGeoLatLng,
                                             ErrInvalidGeoUnit})
          => last.calls = 0
    /\ (last.calls = 1 /\ last.resp[1].err)
          => (last.err # NoError /\ last.ret = <<>>)

\* A matrix call over two origins whose one provider call failed returned an
\* error and no legs.
C27_Witness ==
    /\ last.op \in MatrixOps
    /\ Len(last.in[1]) = 2
    /\ last.calls = 1
    /\ last.resp[1].err
    /\ last.err # NoError
    /\ last.ret = <<>>

\* C30: a lookup that returns an error leaves the store and the dirty flag
\* as they were; a lookup changes the store or the flag only after a
\* provider call that returned at least one result.
C30_ErrorLeavesStore ==
    [][(last = Blank /\ last'.op \in GeocodeOps) =>
          /\ last'.err # NoError => (store' = store /\ dirty' = dirty)
          /\ (store' # store \/ dirty' # dirty) =>
                /\ last'.calls = 1
                /\ ~last'.resp[1].err
                /\ Len(last'.resp[1].results) >= 1]_vars

\* A lookup on a caching facade reached the provider, got no results and
\* returned the error; the store is still the one loaded from the file.
C30_Witness ==
    /\ last.op \in GeocodeOps
    /\ cfg.Cached
    /\ last.calls = 1
    /\ last.err = ErrGeoCodeNoResults
    /\ ~dirty
    /\ store = NewCacheService(FileOf(SeedData))
    /\ store # EmptyMap

\* The keys of the entries written to the store by this facade's lookups (a
\* value loaded from the file is a Point, a value written is a *Point).
SessionKeys == {k \in DOMAIN store : store[k].val.kind = "*Point"}

\* C28: on an idle cache-enabled facade, a Clear that returns nil leaves a
\* remote object that holds every entry the lookups wrote to the store; so
\* after a Clear whose save succeeded and whose upload failed, a following
\* Clear does not return nil while the remote copy lacks those entries.
C28_ClearDurable ==
    (svc = "ready" /\ cfg.Cached /\ last = Blank) =>
        \A saveOk \in BOOLEAN, up \in UploadOutcomes :
            LET r == ClearCall(saveOk, up)
            IN  r.last.err = NoError =>
                   \A k \in SessionKeys :
                       r.remote.exists /\ k \in DOMAIN r.remote.data

\* C29: after a construction that found no local file and whose download
\* failed, no file exists at the cache path, and a construction that follows
\* attempts the download again.
C29_FailedDownloadLeavesNoFile ==
    (/\ last.op = "NewGeoCodeService"
     /\ last.steps # <<>>
     /\ last.steps[1] = "downloadCache"
     /\ last.resp[1] # NoError)
       => /\ ~localFile.exists
          /\ \A dl \in DownloadOutcomes :
                 NewGeoCodeServiceCall(dl).last.steps # <<>>

\* The five fields of an address query in the order street, city, state,
\* postal code, country.
FieldsOf(a) == <<a.Street, a.City, a.State, a.PostalCode, a.Country>>

RECURSIVE NonEmpty(_)
\* The non-empty strings of a list, in order.
NonEmpty(fs) ==
    IF fs = <<>> THEN <<>>
    ELSE (IF Head(fs) = <<>> THEN <<>> ELSE <<Head(fs)>>) \o NonEmpty(Tail(fs))

RECURSIVE JoinSpace(_)
\* The strings of a list with one space between neighbours.
JoinSpace(fs) ==
    IF fs = <<>> THEN <<>>
    ELSE IF Len(fs) = 1 THEN fs[1]
    ELSE fs[1] \o <<" ">> \o JoinSpace(Tail(fs))

\* C26: addressString is the non-empty fields of the query in the order
\* street, city, state, postal code, country with one space between
\* neighbours: it neither starts nor ends with a separator, it is empty when
\* every field is empty, and GeocodeAddress uses the one string both as the
\* provider query and as the input of the cache key.
C26_AddressString ==
    last.op = "addressString" =>
        LET a == last.in[1]
            r == last.ret[1]
            present == NonEmpty(FieldsOf(a))
        IN  /\ r = JoinSpace(present)
            /\ (r = <<>>) <=> (present = <<>>)
            /\ present # <<>> =>
                  /\ SubSeq(r, 1, Len(present[1])) = present[1]
                  /\ SubSeq(r, Len(r) - Len(present[Len(present)]) + 1, Len(r))
                        = present[Len(present)]
            /\ \A out \in ProviderOutcomes :
                  LET g == GeocodeAddressCall(TRUE, a, out, TRUE).last
                      d == IF a.Country = <<>>
                           THEN [a EXCEPT !.Country = DefaultCountry] ELSE a
                  IN  /\ g.key = addressString(d)
                      /\ g.req = g.key

\* addressString was applied to a query with only a city and a country and
\* returned the two with one space between them.
C26_Witness ==
    /\ last.op = "addressString"
    /\ last.in[1].Street = <<>>
    /\ last.in[1].City # <<>>
    /\ last.in[1].State = <<>>
    /\ last.in[1].PostalCode = <<>>
    /\ last.in[1].Country # <<>>
    /\ last.ret[1] = last.in[1].City \o <<" ">> \o last.in[1].Country

\* C23: two processes share the remote object and no merge is made: a Clear
\* that uploads leaves the remote object equal to the uploading process's
\* file, which is its store as saved, so what the other process uploaded
\* before and this process never had is no longer in the remote object.
C23_LastUploadWins ==
    [][(last = Blank /\ last'.op = "Clear" /\ last'.resp = <<NoError, NoError>>)
          => /\ remote' = localFile'
             /\ remote'.data = FileData(store)
             /\ \A k \in DOMAIN remote.data :
                    k \notin DOMAIN store => k \notin DOMAIN remote'.data]_vars

\* Both processes started from a download and ran Clear; the running one
\* uploaded last, and an entry the other one added, saved and uploaded before
\* is in the other's file and not in the remote object.
C23_Witness ==
    /\ last.op = "Clear"
    /\ last.resp = <<NoError, NoError>>
    /\ remote = localFile
    /\ buildKey(<<"9", "2">>) \in DOMAIN remote.data
    /\ buildKey(<<"9", "2">>) \in DOMAIN peer.localFile.data
    /\ ~peer.dirty
    /\ \E k \in DOMAIN peer.store :
          /\ peer.store[k].val.kind = "*Point"
          /\ k \in DOMAIN peer.localFile.data
          /\ k \notin DOMAIN remote.data
    /\ \E k \in DOMAIN store :
          /\ store[k].val.kind = "*Point"
          /\ k \in DOMAIN remote.data
          /\ k \notin DOMAIN peer.localFile.data

\* C24: uploadCache and downloadCache each build their storage request with
\* the modification time read from the cache file whenever the file exists.
C24_ModTimeHint ==
    (last.op \in {"uploadCache", "downloadCache"} /\ last.in[1]
        /\ last.req # <<>>)
       => last.req[1].fmod = last.in[2]

\* uploadCache on its own does hand on the modification time it read.
UploadCarriesModTime ==
    (last.op = "uploadCache" /\ last.in[1] /\ last.req # <<>>)
       => last.req[1].fmod = last.in[2]

====
